---- MODULE Spec2Model ----
(***************************************************************************)
(* Model of go-pkgz/requester: the retry middleware (package middleware).  *)
(* One RetryMiddleware is constructed from options and serves one          *)
(* RoundTrip call; the wrapped RoundTripper and the request's context are  *)
(* the environment.                                                        *)
(***************************************************************************)
EXTENDS Integers, Sequences, FiniteSets, TLC

\* ------------------------------------------------------------------ bounds
MaxAttempts == 3
MaxCodes == 2
MaxBodyLen == 2
MaxBufLimit == 1

\* callers of the gate, its largest capacity, transports one handler wraps
MaxCallers == 3
MaxCapacity == 2
NumTransports == 2
\* sequential calls through the cache decorator
MaxCacheCalls == 3
\* largest initial delay and largest attempt index handed to calcDelay
MaxInitialDelay == 3
MaxAttemptIndex == 9
\* requesters made, middlewares made and middlewares passed in one call
MaxRequesters == 2
MaxMiddlewares == 3
MaxArgs == 1

\* ------------------------------------------------- values of the Go program
\* nil *http.Response, and the nil error
NoResp == 0
NoErr == 0
\* req.Context().Err(), told apart from the errors of next.RoundTrip (1, 2, ...)
CtxErr == -1
\* status codes the wrapped RoundTripper answers with in the model
UpstreamCodes == {200, 404, 503}
\* status codes the options may list
ListCodes == {404, 503}
\* every status code shouldRetry is examined on
AllCodes == 100..599

SeqsUpTo(S, n) == UNION {[1..k -> S] : k \in 0..n}
CodeLists == SeqsUpTo(ListCodes, MaxCodes)

VARIABLES
    \* RetryMiddleware fields
    attempts, retryCodes, excludeCodes, bufferBodies, maxBufferSize,
    \* the request: Body, GetBody, Context
    reqBody, bodyLen, bodyReadErr, reqGetBody, cancelled,
    \* bytes of req.Body not yet read
    unread,
    \* RoundTrip locals
    pc, effAttempts, attempt, lastResponse, lastError,
    \* what RoundTrip returned
    result,
    \* observation of the run: invocations of next.RoundTrip and their
    \* outcomes, backoff waits, and where the call stood when ctx fired
    calls, trace, waits, cancelPc, callsAtCancel

cfgVars == <<attempts, retryCodes, excludeCodes, bufferBodies, maxBufferSize>>
reqVars == <<reqBody, bodyLen, bodyReadErr, reqGetBody, unread>>
loopVars == <<effAttempts, attempt, lastResponse, lastError>>
obsVars == <<calls, trace, waits>>
ctxVars == <<cancelled, cancelPc, callsAtCancel>>
retryVars == <<cfgVars, reqVars, ctxVars, pc, loopVars, result, obsVars>>

VARIABLES
    \* the concurrency gate: its capacity, the semaphore(s), and per caller the
    \* wrapped transport it goes through, its position, its context, what the
    \* call returned, and counts of invocations and slot releases
    gateCap, admitted, via, gpc, gctx, gresult, invoked, released, gcancelPc

gateVars == <<gateCap, admitted, via, gpc, gctx, gresult, invoked, released, gcancelPc>>

VARIABLES
    \* cache decorator: which decorator is built, Middleware fields, the
    \* statuses the built-in cache stores, the request body of the run, the
    \* loading cache's entries, and the record of every call made so far
    decorator, Service, allowedMethods, keyBody, cacheStatuses, runBody,
    entries, history

VARIABLES
    \* concurrent calls through the cache decorator: per caller its position,
    \* its request, and what its call returned
    cpc, creq, cgot

concVars == <<cpc, creq, cgot>>
cacheVars == <<decorator, Service, allowedMethods, keyBody, cacheStatuses,
               runBody, entries, history, concVars>>

VARIABLES
    \* cache key: Middleware.keyComponents.headers, and the requests whose
    \* keys are compared: the requests as built so far and the keys extracted
    keyHeaders, hdrInclude, hdrExclude, keyFunc, kreqs, kkeys

keyVars == <<keyHeaders, hdrInclude, hdrExclude, keyFunc, kreqs, kkeys>>

VARIABLES
    \* Requester: the backing arrays of the middlewares slices, the requesters
    \* (slice header and client transport), the chain each requester was given
    \* through New, Use and With, the number of middlewares made so far, and
    \* what the last Do or Client().Do ran
    arrays, requesters, given, made, lastDo

rqVars == <<arrays, requesters, given, made, lastDo>>

VARIABLES
    \* calcDelay: RetryMiddleware's initialDelay, maxDelay, backoff and
    \* jitterFactor, and the last delay computed
    initialDelay, maxDelay, backoff, jitterFactor, computed

delayVars == <<initialDelay, maxDelay, backoff, jitterFactor, computed>>

notRetryVars == <<gateVars, cacheVars, keyVars, rqVars, delayVars>>
notGateVars == <<retryVars, cacheVars, keyVars, rqVars, delayVars>>
notCacheVars == <<retryVars, gateVars, keyVars, rqVars, delayVars>>
notKeyVars == <<retryVars, gateVars, rqVars, delayVars>>
notRqVars == <<retryVars, gateVars, cacheVars, keyVars, delayVars>>
notDelayVars == <<retryVars, gateVars, cacheVars, keyVars, rqVars>>

vars == <<retryVars, gateVars, cacheVars, keyVars, rqVars, delayVars>>

Min(a, b) == IF a < b THEN a ELSE b

\* ------------------------------------------------------------ return values
Pending == [kind |-> "pending", resp |-> NoResp, wraps |-> NoErr, n |-> 0, limit |-> 0]
\* return resp, nil
RetOK(resp) == [kind |-> "ok", resp |-> resp, wraps |-> NoErr, n |-> 0, limit |-> 0]
\* return lastResponse, fmt.Errorf("retry: transport error after %d attempts: %w", attempts, lastError)
RetTransport(resp, n, e) == [kind |-> "transport", resp |-> resp, wraps |-> e, n |-> n, limit |-> 0]
\* return nil, fmt.Errorf("retry: context error: %w", ctx.Err())
RetCtx == [kind |-> "ctx", resp |-> NoResp, wraps |-> CtxErr, n |-> 0, limit |-> 0]
\* return nil, fmt.Errorf("retry: context cancelled during delay: %w", ctx.Err())
RetCtxDelay == [kind |-> "ctxDelay", resp |-> NoResp, wraps |-> CtxErr, n |-> 0, limit |-> 0]
\* return nil, fmt.Errorf("retry: failed to get new request body: %w", err)
RetGetBody == [kind |-> "getBody", resp |-> NoResp, wraps |-> NoErr, n |-> 0, limit |-> 0]
\* fmt.Errorf("retry: request body too large (%d bytes exceeds %d byte limit) - cannot retry", ...)
RetTooLarge(n, limit) == [kind |-> "tooLarge", resp |-> NoResp, wraps |-> NoErr, n |-> n, limit |-> limit]
\* fmt.Errorf("retry: failed to read request body: %w", err)
RetReadBody == [kind |-> "readBody", resp |-> NoResp, wraps |-> NoErr, n |-> 0, limit |-> 0]

\* --------------------------------------------------------------- shouldRetry
\* for _, code := range codes { if status == code { return true } }
RECURSIVE Contains(_, _, _)
Contains(codes, i, status) ==
    IF i > Len(codes) THEN FALSE
    ELSE IF status = codes[i] THEN TRUE
    ELSE Contains(codes, i + 1, status)

shouldRetryAbove500(status) ==
    IF Len(retryCodes) > 0 THEN Contains(retryCodes, 1, status)
    ELSE IF Len(excludeCodes) > 0 THEN ~Contains(excludeCodes, 1, status)
    ELSE status > 500
shouldRetry(status) ==
    IF Len(retryCodes) > 0 THEN Contains(retryCodes, 1, status)
    ELSE IF Len(excludeCodes) > 0 THEN ~Contains(excludeCodes, 1, status)
    ELSE status >= 500

\* ------------------------------------------------------------------- Init
\* no gate and no cache decorator in the chain
GateUnused ==
    /\ gateCap = 0
    /\ admitted = <<>>
    /\ via = <<>>
    /\ gpc = <<>>
    /\ gctx = <<>>
    /\ gresult = <<>>
    /\ invoked = <<>>
    /\ released = <<>>
    /\ gcancelPc = <<>>
CacheUnused ==
    /\ decorator = "none"
    /\ Service = "nil"
    /\ allowedMethods = <<>>
    /\ keyBody = FALSE
    /\ cacheStatuses = {}
    /\ runBody = "nil"
    /\ entries = {}
    /\ history = <<>>
    /\ cpc = <<>>
    /\ creq = <<>>
    /\ cgot = <<>>

KeyUnused ==
    /\ keyHeaders = FALSE
    /\ keyFunc = "nil"
    /\ hdrInclude = <<>>
    /\ hdrExclude = <<>>
    /\ kreqs = <<>>
    /\ kkeys = <<>>
RequesterUnused ==
    /\ arrays = <<>>
    /\ requesters = <<>>
    /\ given = <<>>
    /\ made = 0
    /\ lastDo = <<>>
DelayUnused ==
    /\ initialDelay = 0
    /\ maxDelay = 0
    /\ backoff = "BackoffConstant"
    /\ jitterFactor = 0
    /\ computed = <<>>

Init ==
    /\ GateUnused
    /\ CacheUnused
    /\ KeyUnused
    /\ RequesterUnused
    /\ DelayUnused
    /\ attempts \in 0..MaxAttempts
    /\ retryCodes \in CodeLists
    /\ excludeCodes \in CodeLists
    /\ bufferBodies \in BOOLEAN
    /\ maxBufferSize \in 0..MaxBufLimit
    /\ reqBody = "nil"
    /\ bodyLen = 0
    /\ bodyReadErr = FALSE
    /\ reqGetBody = "nil"
    /\ unread = 0
    /\ cancelled = FALSE
    /\ cancelPc = "never"
    /\ callsAtCancel = 0
    /\ pc = "new"
    /\ effAttempts = 0
    /\ attempt = 0
    /\ lastResponse = NoResp
    /\ lastError = NoErr
    /\ result = Pending
    /\ calls = 0
    /\ trace = <<>>
    /\ waits = 0

\* ------------------------------------------------------------------ Retry
\* the handler returned by Retry(...) applied to next: options, then the check
RetryPrefersAllowList ==
    /\ pc = "new"
    /\ pc' = "ready"
    /\ UNCHANGED <<notRetryVars, cfgVars, reqVars, ctxVars, loopVars, result, obsVars>>
Retry ==
    /\ pc = "new"
    /\ pc' = IF Len(retryCodes) > 0 /\ Len(excludeCodes) > 0 THEN "panicked" ELSE "ready"
    /\ UNCHANGED <<notRetryVars, cfgVars, reqVars, ctxVars, loopVars, result, obsVars>>

\* ------------------------------------------------------------ the request
\* the caller builds a request and hands it to RoundTrip: Body is nil,
\* http.NoBody or a reader of bodyLen bytes (ending in EOF or in a read
\* error), GetBody is nil or the caller's own
NewRequest ==
    /\ pc = "ready"
    /\ pc' = "entry"
    /\ reqBody' \in {"nil", "NoBody", "reader"}
    /\ bodyLen' \in IF reqBody' = "reader" THEN 0..MaxBodyLen ELSE {0}
    /\ bodyReadErr' \in IF reqBody' = "reader" THEN BOOLEAN ELSE {FALSE}
    /\ reqGetBody' \in {"nil", "user"}
    /\ unread' = bodyLen'
    /\ UNCHANGED <<notRetryVars, cfgVars, ctxVars, loopVars, result, obsVars>>

\* ------------------------------------------------------------- RoundTrip
\* hasBody := req.Body != nil && req.Body != http.NoBody
hasBody == reqBody = "reader"

\* if hasBody && req.GetBody == nil && r.attempts > 1
NeedsBodyPrep == hasBody /\ reqGetBody = "nil" /\ attempts > 1

\* attempts = 1: buffering disabled, the body cannot be replayed
UnbufferedBudgetAll == attempts
UnbufferedBudget == 1

\* io.ReadAll(io.LimitReader(req.Body, r.maxBufferSize+1)): the bytes read,
\* and whether the body's read error is met before the limit
BytesRead == Min(bodyLen, maxBufferSize + 1)
ReadFails == bodyReadErr /\ bodyLen < maxBufferSize + 1

\* io.NopCloser(bytes.NewReader(bodyBytes)): a reader at the start of the
\* buffered bytes, whatever was read from the one before it
StaleBody == unread
FreshBody == BytesRead

\* if int64(len(bodyBytes)) > r.maxBufferSize
BodyTooLargeOffByOne(n) == n > maxBufferSize + 1
BodyTooLarge(n) == n > maxBufferSize

\* entry of RoundTrip up to the loop: effective attempts and body buffering
RoundTripStart ==
    /\ pc = "entry"
    /\ IF NeedsBodyPrep /\ bufferBodies
       THEN \* bufferRequestBody
            IF ReadFails
            THEN /\ pc' = "done"
                 /\ result' = RetReadBody
                 /\ unread' = unread - BytesRead
                 /\ UNCHANGED <<effAttempts, reqGetBody>>
            ELSE IF BodyTooLarge(BytesRead)
            THEN /\ pc' = "done"
                 /\ result' = RetTooLarge(BytesRead, maxBufferSize)
                 /\ unread' = unread - BytesRead
                 /\ UNCHANGED <<effAttempts, reqGetBody>>
            ELSE /\ pc' = "check"
                 /\ reqGetBody' = "buffered"
                 /\ unread' = FreshBody
                 /\ effAttempts' = attempts
                 /\ UNCHANGED result
       ELSE /\ pc' = "check"
            /\ effAttempts' = IF NeedsBodyPrep THEN UnbufferedBudget ELSE attempts
            /\ UNCHANGED <<result, reqGetBody, unread>>
    /\ UNCHANGED <<notRetryVars, cfgVars, reqBody, bodyLen, bodyReadErr, ctxVars,
                   attempt, lastResponse, lastError, obsVars>>

\* for attempt := 0; attempt < attempts; attempt++
LoopContinuesInclusive == attempt <= effAttempts
LoopContinues == attempt < effAttempts

\* if req.Context().Err() != nil { return nil, ... } at the top of an iteration
CheckCtxNoBackoff ==
    /\ pc = "check"
    /\ LoopContinues
    /\ IF cancelled
       THEN pc' = "done" /\ result' = RetCtx
       ELSE pc' = "invoke" /\ UNCHANGED result
    /\ UNCHANGED <<notRetryVars, cfgVars, reqVars, ctxVars, loopVars, obsVars>>
CheckCtxSkipped ==
    /\ pc = "check"
    /\ LoopContinues
    /\ pc' = IF attempt > 0 THEN "select" ELSE "invoke"
    /\ UNCHANGED <<notRetryVars, cfgVars, reqVars, ctxVars, loopVars, result, obsVars>>
CheckCtx ==
    /\ pc = "check"
    /\ LoopContinues
    /\ IF cancelled
       THEN pc' = "done" /\ result' = RetCtx
       ELSE pc' = (IF attempt > 0 THEN "select" ELSE "invoke") /\ UNCHANGED result
    /\ UNCHANGED <<notRetryVars, cfgVars, reqVars, ctxVars, loopVars, obsVars>>

\* select { case <-ctx.Done(): return ...; case <-time.After(delay): } as the
\* goroutine reaches it: a case that is ready is taken (either one when both
\* are), otherwise the goroutine parks. The timer is ready at once when the
\* computed delay is not positive.
SelectEnter ==
    /\ pc = "select"
    /\ \/ cancelled /\ pc' = "done" /\ result' = RetCtxDelay /\ UNCHANGED waits
       \/ pc' = "rewind" /\ waits' = waits + 1 /\ UNCHANGED result
       \/ ~cancelled /\ pc' = "parked" /\ UNCHANGED <<result, waits>>
    /\ UNCHANGED <<notRetryVars, cfgVars, reqVars, ctxVars, loopVars, calls, trace>>

\* parked in the select: the first channel to become ready wakes the goroutine
\* with its case. The timer wins only while ctx.Done() is not closed.
DelayElapsedSleep ==
    /\ pc = "parked"
    /\ pc' = "rewind"
    /\ waits' = waits + 1
    /\ UNCHANGED <<notRetryVars, cfgVars, reqVars, ctxVars, loopVars, result, calls, trace>>
DelayElapsed ==
    /\ pc = "parked"
    /\ ~cancelled
    /\ pc' = "rewind"
    /\ waits' = waits + 1
    /\ UNCHANGED <<notRetryVars, cfgVars, reqVars, ctxVars, loopVars, result, calls, trace>>

DelayCancelled ==
    /\ pc = "parked"
    /\ cancelled
    /\ pc' = "done"
    /\ result' = RetCtxDelay
    /\ UNCHANGED <<notRetryVars, cfgVars, reqVars, ctxVars, loopVars, obsVars>>

\* if req.GetBody != nil { newBody, err := req.GetBody(); ... }
\* a caller's GetBody may fail; the one bufferRequestBody installs never does
RewindKeepsGoing ==
    /\ pc = "rewind"
    /\ \/ /\ pc' = "invoke"
          /\ unread' = CASE reqGetBody = "buffered" -> FreshBody
                          [] reqGetBody = "user" -> bodyLen
                          [] OTHER -> unread
          /\ UNCHANGED result
       \/ reqGetBody = "user" /\ pc' = "invoke" /\ result' = RetGetBody /\ UNCHANGED unread
    /\ UNCHANGED <<notRetryVars, cfgVars, reqBody, bodyLen, bodyReadErr, reqGetBody,
                   ctxVars, loopVars, obsVars>>
\* req.Body = newBody: the caller's GetBody hands out the body anew
Rewind ==
    /\ pc = "rewind"
    /\ \/ /\ pc' = "invoke"
          /\ unread' = CASE reqGetBody = "buffered" -> FreshBody
                          [] reqGetBody = "user" -> bodyLen
                          [] OTHER -> unread
          /\ UNCHANGED result
       \/ reqGetBody = "user" /\ pc' = "done" /\ result' = RetGetBody /\ UNCHANGED unread
    /\ UNCHANGED <<notRetryVars, cfgVars, reqBody, bodyLen, bodyReadErr, reqGetBody,
                   ctxVars, loopVars, obsVars>>

\* if !r.shouldRetry(resp) { return resp, nil }
ReturnsAtOnceOnSuccess(status) == ~shouldRetry(status) /\ status < 300
ReturnsAtOnce(status) == ~shouldRetry(status)

\* resp, err := r.next.RoundTrip(req) and the handling of its outcome.
\* The error of the k-th invocation is identified by k. next finds req.Body
\* with "body" bytes to read and reads none or all of them.
Invoke ==
    /\ pc = "invoke"
    /\ calls' = calls + 1
    /\ waits' = waits
    /\ \E c \in {0, unread} :
       /\ unread' = unread - c
       /\ \/ \* err != nil: lastError = err; lastResponse = resp (nil); continue
             /\ trace' = Append(trace, [err |-> TRUE, code |-> NoResp, body |-> unread])
             /\ lastError' = calls + 1
             /\ lastResponse' = NoResp
             /\ attempt' = attempt + 1
             /\ pc' = "check"
             /\ UNCHANGED result
          \/ \E status \in UpstreamCodes :
             /\ trace' = Append(trace, [err |-> FALSE, code |-> status, body |-> unread])
             /\ IF ReturnsAtOnce(status)
                THEN /\ pc' = "done"
                     /\ result' = RetOK(status)
                     /\ UNCHANGED <<attempt, lastResponse, lastError>>
                ELSE /\ lastResponse' = status
                     /\ attempt' = attempt + 1
                     /\ pc' = "check"
                     /\ UNCHANGED <<result, lastError>>
    /\ UNCHANGED <<notRetryVars, cfgVars, reqBody, bodyLen, bodyReadErr, reqGetBody,
                   ctxVars, effAttempts>>

\* after the loop: if lastError != nil { return lastResponse, fmt.Errorf(...) }
\*                 return lastResponse, nil
ExhaustedResultAlwaysError == RetTransport(lastResponse, effAttempts, lastError)
ExhaustedResult ==
    IF lastError # NoErr
    THEN RetTransport(lastResponse, effAttempts, lastError)
    ELSE RetOK(lastResponse)

LoopExit ==
    /\ pc = "check"
    /\ ~LoopContinues
    /\ pc' = "done"
    /\ result' = ExhaustedResult
    /\ UNCHANGED <<notRetryVars, cfgVars, reqVars, ctxVars, loopVars, obsVars>>

\* the request's context is cancelled (or its deadline passes) while the call
\* is pending
Cancel ==
    /\ pc \in {"entry", "check", "select", "parked", "rewind", "invoke"}
    /\ ~cancelled
    /\ cancelled' = TRUE
    /\ cancelPc' = pc
    /\ callsAtCancel' = calls
    /\ UNCHANGED <<notRetryVars, cfgVars, reqVars, pc, loopVars, result, obsVars>>

Next ==
    \/ Retry
    \/ NewRequest
    \/ RoundTripStart
    \/ CheckCtx
    \/ SelectEnter
    \/ DelayElapsed
    \/ DelayCancelled
    \/ Rewind
    \/ Invoke
    \/ LoopExit
    \/ Cancel

Spec == Init /\ [][Next]_vars

\* no retry middleware in the chain
RetryUnused ==
    /\ attempts = 0
    /\ retryCodes = <<>>
    /\ excludeCodes = <<>>
    /\ bufferBodies = FALSE
    /\ maxBufferSize = 0
    /\ reqBody = "nil"
    /\ bodyLen = 0
    /\ bodyReadErr = FALSE
    /\ reqGetBody = "nil"
    /\ unread = 0
    /\ cancelled = FALSE
    /\ cancelPc = "never"
    /\ callsAtCancel = 0
    /\ pc = "new"
    /\ effAttempts = 0
    /\ attempt = 0
    /\ lastResponse = NoResp
    /\ lastError = NoErr
    /\ result = Pending
    /\ calls = 0
    /\ trace = <<>>
    /\ waits = 0

\* ----------------------------------------------------------- MaxConcurrent
\* MaxConcurrent(N) makes one handler; the handler wraps a transport each time
\* it is applied. A caller c sends one request through the transport via[c]
\* that the handler wrapped.
Callers == 1..MaxCallers
Transports == 1..NumTransports
Semaphores == 0..NumTransports

\* the semaphore a call waits on: the one the handler was created with
SemaPerTransport(c) == via[c]
SemaOf(c) == 0

\* a slot is free while fewer than N callers hold one
HasRoomInclusive(s) == admitted[s] <= gateCap
HasRoomBelowLast(s) == admitted[s] < gateCap - 1
HasRoom(s) == admitted[s] < gateCap

\* the wait for a slot ends in admission only while the request's context
\* has not fired
AdmissionOpenAfterCancel(c) == HasRoom(SemaOf(c))
AdmissionOpen(c) == ~gctx[c] /\ HasRoom(SemaOf(c))

\* the slot is given back on every way out of the wrapped transport
ReleasedOnSuccessOnly(outcome) == outcome = "resp"
ReleasedOn(outcome) == TRUE

GateInit ==
    /\ RetryUnused
    /\ CacheUnused
    /\ KeyUnused
    /\ RequesterUnused
    /\ DelayUnused
    /\ gateCap \in 1..MaxCapacity
    /\ admitted = [s \in Semaphores |-> 0]
    /\ via \in [Callers -> Transports]
    /\ gpc = [c \in Callers |-> "start"]
    /\ gctx = [c \in Callers |-> FALSE]
    /\ gresult = [c \in Callers |-> "pending"]
    /\ invoked = [c \in Callers |-> 0]
    /\ released = [c \in Callers |-> 0]
    /\ gcancelPc = [c \in Callers |-> "never"]

\* RoundTrip of the wrapped transport is called and reaches the wait for a slot
GateEnter(c) ==
    /\ gpc[c] = "start"
    /\ gpc' = [gpc EXCEPT ![c] = "waiting"]
    /\ UNCHANGED <<notGateVars, gateCap, admitted, via, gctx, gresult,
                   invoked, released, gcancelPc>>

\* a slot is acquired and next.RoundTrip is invoked
GateAcquire(c) ==
    /\ gpc[c] = "waiting"
    /\ AdmissionOpen(c)
    /\ admitted' = [admitted EXCEPT ![SemaOf(c)] = @ + 1]
    /\ invoked' = [invoked EXCEPT ![c] = @ + 1]
    /\ gpc' = [gpc EXCEPT ![c] = "inside"]
    /\ UNCHANGED <<notGateVars, gateCap, via, gctx, gresult, released,
                   gcancelPc>>

\* the context fires first: the wait is abandoned with the context's error
GateAbort(c) ==
    /\ gpc[c] = "waiting"
    /\ gctx[c]
    /\ gresult' = [gresult EXCEPT ![c] = "ctx"]
    /\ gpc' = [gpc EXCEPT ![c] = "done"]
    /\ UNCHANGED <<notGateVars, gateCap, admitted, via, gctx, invoked,
                   released, gcancelPc>>

\* next.RoundTrip returns a response or an error; the slot is released and
\* the outcome is handed to the caller
GateReturn(c) ==
    /\ gpc[c] = "inside"
    /\ \E outcome \in {"resp", "err"} :
          /\ gresult' = [gresult EXCEPT ![c] = outcome]
          /\ IF ReleasedOn(outcome)
             THEN /\ admitted' = [admitted EXCEPT ![SemaOf(c)] = @ - 1]
                  /\ released' = [released EXCEPT ![c] = @ + 1]
             ELSE UNCHANGED <<admitted, released>>
    /\ gpc' = [gpc EXCEPT ![c] = "done"]
    /\ UNCHANGED <<notGateVars, gateCap, via, gctx, invoked, gcancelPc>>

\* the request's context is cancelled or its deadline passes
GateCancel(c) ==
    /\ gpc[c] \in {"start", "waiting", "inside"}
    /\ ~gctx[c]
    /\ gctx' = [gctx EXCEPT ![c] = TRUE]
    /\ gcancelPc' = [gcancelPc EXCEPT ![c] = gpc[c]]
    /\ UNCHANGED <<notGateVars, gateCap, admitted, via, gpc, gresult,
                   invoked, released>>

GateNext ==
    \/ \E c \in Callers : GateEnter(c)
    \/ \E c \in Callers : GateAcquire(c)
    \/ \E c \in Callers : GateAbort(c)
    \/ \E c \in Callers : GateReturn(c)
    \/ \E c \in Callers : GateCancel(c)

GateSpec == GateInit /\ [][GateNext]_vars

\* every goroutine that can take a step is scheduled, and every invocation of
\* the wrapped transport returns; nothing obliges a context to fire
GateFairSpec ==
    /\ GateInit
    /\ [][GateNext]_vars
    /\ \A c \in Callers :
          /\ WF_vars(GateEnter(c))
          /\ WF_vars(GateAcquire(c))
          /\ WF_vars(GateAbort(c))
          /\ WF_vars(GateReturn(c))

\* -------------------------------------------------------- cache.Middleware
\* const maxBodySize = 1024 * 16
maxBodySize == 16384

\* a request body: absent (req.Body == nil), a reader that fails, or the
\* first len bytes of the run's payload
NilBody == [kind |-> "nil", len |-> 0]
FailingBody == [kind |-> "failing", len |-> 0]
Bytes(n) == [kind |-> "bytes", len |-> n]
BodyLens == {1, maxBodySize, maxBodySize + 1}
Bodies == {NilBody, FailingBody} \cup {Bytes(n) : n \in BodyLens}

Methods == {"GET", "POST"}
MethodLists == {<<"GET">>, <<"get">>, <<"put", "POST">>}
URLs == {"/1", "/2"}
Statuses == {200, 404}

\* what next.RoundTrip can answer: an error, or a response with a status and
\* with or without a body
NotInvoked == [kind |-> "none", status |-> 0, hasBody |-> FALSE]
UpErr == [kind |-> "err", status |-> 0, hasBody |-> FALSE]
UpResp(status, withBody) == [kind |-> "resp", status |-> status, hasBody |-> withBody]
UpOutcomes == {UpErr, UpResp(200, FALSE)} \cup {UpResp(st, TRUE) : st \in Statuses}

\* strings.EqualFold on method names
ToUpper(m) ==
    CASE m = "get" -> "GET"
      [] m = "post" -> "POST"
      [] m = "put" -> "PUT"
      [] m = "k2" -> "K2"
      [] m = "keyDbg" -> "KEYDBG"
      [] OTHER -> m
EqualFold(a, b) == ToUpper(a) = ToUpper(b)

\* for _, m := range m.allowedMethods { if strings.EqualFold(m, req.Method) ...
methodCacheable(method) ==
    \E i \in DOMAIN allowedMethods : EqualFold(allowedMethods[i], method)

\* if m.Service == nil || !m.methodCacheable(req) { return next.RoundTrip(req) }
BypassOnNilServiceOnly(method) == Service = "nil"
Bypass(method) == Service = "nil" \/ ~methodCacheable(method)

\* io.ReadAll(io.LimitReader(req.Body, maxBodySize)): the bytes read
LimitRead(n) == Min(n, maxBodySize)

\* bodyKey: the projection of the body (the number of payload bytes in it;
\* the empty string for no body), whether reading failed, and req.Body
\* afterwards: io.NopCloser(bytes.NewReader(reqBody)) over the bytes read
bodyKeyErrorDropped(body) ==
    CASE body.kind = "nil" -> [bkey |-> 0, err |-> FALSE, body |-> body]
      [] body.kind = "failing" -> [bkey |-> 0, err |-> FALSE, body |-> body]
      [] OTHER -> [bkey |-> LimitRead(body.len), err |-> FALSE,
                   body |-> Bytes(LimitRead(body.len))]
bodyKey(body) ==
    CASE body.kind = "nil" -> [bkey |-> 0, err |-> FALSE, body |-> body]
      [] body.kind = "failing" -> [bkey |-> 0, err |-> TRUE, body |-> body]
      [] OTHER -> [bkey |-> LimitRead(body.len), err |-> FALSE,
                   body |-> Bytes(LimitRead(body.len))]

\* fmt.Sprintf("%s##%s##%v##%s", req.URL.String(), req.Method, hkey, bkey):
\* the four parts written one after the other with "##" between them
CompositeKeyNoURL(url, method, hkey, bkey) == <<"", "##", method, "##">> \o hkey \o <<"##", bkey>>
CompositeKey(url, method, hkey, bkey) == <<url, "##", method, "##">> \o hkey \o <<"##", bkey>>

\* fmt.Sprintf("%x", sha256.Sum256([]byte(key))): distinct keys, distinct digests
Digest(key) == <<"sha256", key>>

\* strings are sequences of tokens; TokenOrder lists the tokens in byte order
TokenOrder == <<"$$", "%%", ":", "K2", "k2", "keyDbg", "v22", "val1", "val2">>
Rank(t) == CHOOSE i \in DOMAIN TokenOrder : TokenOrder[i] = t
RECURSIVE LessStr(_, _)
LessStr(a, b) ==
    IF a = <<>> THEN b # <<>>
    ELSE IF b = <<>> THEN FALSE
    ELSE IF Head(a) # Head(b) THEN Rank(Head(a)) < Rank(Head(b))
    ELSE LessStr(Tail(a), Tail(b))

\* strings.Join(elems, sep)
RECURSIVE Join(_, _)
Join(elems, sep) ==
    IF elems = <<>> THEN <<>>
    ELSE IF Len(elems) = 1 THEN elems[1]
    ELSE elems[1] \o <<sep>> \o Join(Tail(elems), sep)

\* sort.Strings(hh)
RECURSIVE Insert(_, _)
Insert(x, sorted) ==
    IF sorted = <<>> THEN <<x>>
    ELSE IF LessStr(sorted[1], x) THEN <<sorted[1]>> \o Insert(x, Tail(sorted))
    ELSE <<x>> \o sorted
RECURSIVE SortStrings(_)
Unsorted(hh) == hh
SortStrings(hh) == IF hh = <<>> THEN <<>> ELSE Insert(Head(hh), SortStrings(Tail(hh)))

headerAllowedExcludeFirst(key) ==
    IF ~keyHeaders THEN FALSE
    ELSE IF Len(hdrExclude) > 0 /\ \E i \in DOMAIN hdrExclude : EqualFold(key, hdrExclude[i])
    THEN FALSE
    ELSE IF Len(hdrInclude) > 0
    THEN \E i \in DOMAIN hdrInclude : EqualFold(key, hdrInclude[i])
    ELSE TRUE
\* headerAllowed: the include list decides when it is there, else the exclude
\* list, else every header counts
headerAllowed(key) ==
    IF ~keyHeaders THEN FALSE
    ELSE IF Len(hdrInclude) > 0
    THEN \E i \in DOMAIN hdrInclude : EqualFold(key, hdrInclude[i])
    ELSE IF Len(hdrExclude) > 0
    THEN ~\E i \in DOMAIN hdrExclude : EqualFold(key, hdrExclude[i])
    ELSE TRUE

\* k + ":" + strings.Join(h, "%%")
Render(k, h) == <<k, ":">> \o Join(h, "%%")

\* for k, h := range req.Header { if m.headerAllowed(k) { hh = append(...) } }
\* with the map iterated in the given order
RECURSIVE Collect(_, _)
Collect(header, order) ==
    IF order = <<>> THEN <<>>
    ELSE (IF headerAllowed(Head(order))
          THEN <<Render(Head(order), header[Head(order)])>> ELSE <<>>)
         \o Collect(header, Tail(order))

\* sort.Strings(hh); hkey = strings.Join(hh, "$$")
headersKey(header, order) == Join(SortStrings(Collect(header, order)), "$$")

\* a header map without entries, and the orders a range over a map can take
NoHeader == <<>>
Orders(header) ==
    {o \in [1..Cardinality(DOMAIN header) -> DOMAIN header] :
        \A i, j \in DOMAIN o : i # j => o[i] # o[j]}

\* KeyFunc(fn): no function, or one returning r.URL.Path
KeyFuncs == {"nil", "Path"}
KeyFuncValue(req) == <<req.url>>
\* m.keyFunc != nil
UsesKeyFuncNever == FALSE
UsesKeyFunc == keyFunc # "nil"

\* extractCacheKey (m.dbg has no option and stays false): the key, the error,
\* req.Body afterwards and whether the body was read
extractCacheKey(req) ==
    LET readsBody == keyBody /\ ~UsesKeyFunc
        b == IF readsBody THEN bodyKey(req.body)
             ELSE [bkey |-> 0, err |-> FALSE, body |-> req.body]
        hkey == IF keyHeaders /\ ~UsesKeyFunc
                THEN headersKey(req.header, req.order) ELSE <<>>
    IN  [key |-> Digest(IF UsesKeyFunc THEN KeyFuncValue(req)
                        ELSE CompositeKey(req.url, req.method, hkey, b.bkey)),
         err |-> b.err, body |-> b.body,
         read |-> readsBody /\ req.body.kind # "nil"]

\* what the caller of RoundTrip gets: a response (the status and which call's
\* upstream answer it carries), an error, or a panic
NoKey == <<"none", <<>>>>
RespOf(status, withBody, from) ==
    [kind |-> "resp", status |-> status, hasBody |-> withBody, from |-> from, wraps |-> "none",
     key |-> NoKey]
ErrOf(what) ==
    [kind |-> "err", status |-> 0, hasBody |-> FALSE, from |-> 0, wraps |-> what,
     key |-> NoKey]
\* return nil, fmt.Errorf("cache read for %s: %w", key, e) around the producer's
\* fmt.Errorf("cache: transport error: %w", err): no response, the key named,
\* the error of upstream invocation n wrapped
CacheReadErrNoKey(key, n) ==
    [kind |-> "err", status |-> 0, hasBody |-> FALSE, from |-> n, wraps |-> "transport",
     key |-> NoKey]
CacheReadErr(key, n) ==
    [kind |-> "err", status |-> 0, hasBody |-> FALSE, from |-> n, wraps |-> "transport",
     key |-> key]
Panicked ==
    [kind |-> "panic", status |-> 0, hasBody |-> FALSE, from |-> 0, wraps |-> "none",
     key |-> NoKey]

\* what the producer hands to the loading cache: httputil.DumpResponse(resp,
\* true), or nil for a response without a body
NilValue == [nil |-> TRUE, status |-> 0, from |-> 0]
Dump(status, from) == [nil |-> FALSE, status |-> status, from |-> from]

Stored(key) == \E e \in entries : e.key = key
ValueAt(key) == (CHOOSE e \in entries : e.key = key).val

\* body := cachedResp.([]byte); http.ReadResponse(...): a nil interface value
\* makes the single-value type assertion panic
ReadBack(val) ==
    IF val.nil THEN Panicked ELSE RespOf(val.status, TRUE, val.from)

\* http.ReadResponse(bufio.NewReader(bytes.NewReader(body)), req): the response
\* delivered reads from a reader made by this call (readers are numbered by
\* the call that made them)
StoredReader(res) == res.from
NewReader(res) == Len(history) + 1

\* one call record of the history
Call(req, bypass, keyed, key, consulted, seen, up, res) ==
    [method |-> req.method, url |-> req.url, body |-> req.body,
     bypass |-> bypass, keyed |-> keyed, key |-> key, consulted |-> consulted,
     invoked |-> up.kind # "none", seen |-> seen, up |-> up, result |-> res,
     reader |-> IF res.kind = "resp" /\ ~bypass THEN NewReader(res) ELSE 0]

Unseen == [kind |-> "unseen", len |-> 0]
\* return next.RoundTrip(req): the upstream's answer goes back as it is
Passthrough(up, n) ==
    IF up.kind = "err" THEN ErrOf("transport") ELSE RespOf(up.status, up.hasBody, n)
NoPanicYet == \A i \in DOMAIN history : history[i].result.kind # "panic"

\* the statuses the built-in cache stores (CacheStatuses, default 200)
StoresAnyStatus(status) == TRUE
Stores(status) == status \in cacheStatuses

CacheInit ==
    /\ RetryUnused
    /\ GateUnused
    /\ KeyUnused
    /\ RequesterUnused
    /\ DelayUnused
    /\ allowedMethods \in MethodLists
    /\ \/ /\ decorator = "cache.Middleware"
          /\ Service \in {"nil", "storing"}
          /\ keyBody \in BOOLEAN
          /\ runBody \in Bodies
          /\ cacheStatuses = {}
       \/ /\ decorator = "middleware.Cache"
          /\ Service = "nil"
          /\ keyBody = FALSE
          /\ runBody = NilBody
          /\ cacheStatuses \in {{200}, Statuses}
    /\ entries = {}
    /\ history = <<>>
    /\ cpc = <<>>
    /\ creq = <<>>
    /\ cgot = <<>>

\* one call of the RoundTripper that cache.Middleware.Middleware returns, with
\* a loading cache that keeps what its producer returned
CacheRoundTrip ==
    /\ decorator = "cache.Middleware"
    /\ Len(history) < MaxCacheCalls
    /\ NoPanicYet
    /\ \E method \in Methods, url \in URLs :
        LET req == [method |-> method, url |-> url, body |-> runBody,
                    header |-> NoHeader, order |-> <<>>]
            n == Len(history) + 1
            k == extractCacheKey(req)
        IN  IF Bypass(method)
            THEN \E up \in UpOutcomes :
                   /\ history' = Append(history, Call(req, TRUE, FALSE, NoKey, FALSE,
                                                      req.body, up, Passthrough(up, n)))
                   /\ UNCHANGED entries
            ELSE IF k.err
            THEN \* return nil, fmt.Errorf("cache key: %w", e)
                 /\ history' = Append(history, Call(req, FALSE, TRUE, NoKey, FALSE,
                                                    Unseen, NotInvoked, ErrOf("cache key")))
                 /\ UNCHANGED entries
            ELSE IF Stored(k.key)
            THEN \* m.Get returns the stored value, the producer does not run
                 /\ history' = Append(history, Call(req, FALSE, TRUE, k.key, TRUE,
                                                    Unseen, NotInvoked, ReadBack(ValueAt(k.key))))
                 /\ UNCHANGED entries
            ELSE \* m.Get runs the producer
                 \E up \in UpOutcomes :
                   IF up.kind = "err"
                   THEN \* return nil, fmt.Errorf("cache read for %s: %w", key, e)
                        /\ history' = Append(history, Call(req, FALSE, TRUE, k.key, TRUE,
                                                           k.body, up, CacheReadErr(k.key, n)))
                        /\ UNCHANGED entries
                   ELSE IF ~up.hasBody
                   THEN \* the producer returns nil, nil; the loading cache may
                        \* or may not keep a nil value
                        /\ history' = Append(history, Call(req, FALSE, TRUE, k.key, TRUE,
                                                           k.body, up, ReadBack(NilValue)))
                        /\ \/ entries' = entries \cup {[key |-> k.key, val |-> NilValue]}
                           \/ UNCHANGED entries
                   ELSE /\ history' = Append(history, Call(req, FALSE, TRUE, k.key, TRUE,
                                                           k.body, up, ReadBack(Dump(up.status, n))))
                        /\ entries' = entries \cup {[key |-> k.key, val |-> Dump(up.status, n)]}
    /\ UNCHANGED <<notCacheVars, decorator, Service, allowedMethods, keyBody,
                   cacheStatuses, runBody, concVars>>

\* one call through the built-in in-memory cache, Cache(...): a request of an
\* allowed method is answered from the store when its key is there; otherwise
\* the upstream is asked and the answer is stored when its status is cacheable
MemCacheRoundTrip ==
    /\ decorator = "middleware.Cache"
    /\ Len(history) < MaxCacheCalls
    /\ \E method \in Methods, url \in URLs :
        LET req == [method |-> method, url |-> url, body |-> runBody]
            n == Len(history) + 1
            key == Digest(CompositeKey(url, method, <<>>, 0))
        IN  IF ~methodCacheable(method)
            THEN \E up \in UpOutcomes :
                   /\ history' = Append(history, Call(req, TRUE, FALSE, NoKey, FALSE,
                                                      req.body, up, Passthrough(up, n)))
                   /\ UNCHANGED entries
            ELSE IF Stored(key)
            THEN /\ history' = Append(history, Call(req, FALSE, TRUE, key, TRUE, Unseen,
                                                    NotInvoked,
                                                    RespOf(ValueAt(key).status, TRUE, ValueAt(key).from)))
                 /\ UNCHANGED entries
            ELSE \E up \in UpOutcomes :
                   /\ history' = Append(history, Call(req, FALSE, TRUE, key, TRUE,
                                                      req.body, up, Passthrough(up, n)))
                   /\ IF up.kind = "resp" /\ up.hasBody /\ Stores(up.status)
                      THEN entries' = entries \cup {[key |-> key, val |-> Dump(up.status, n)]}
                      ELSE UNCHANGED entries
    /\ UNCHANGED <<notCacheVars, decorator, Service, allowedMethods, keyBody,
                   cacheStatuses, runBody, concVars>>

CacheNext ==
    \/ CacheRoundTrip
    \/ MemCacheRoundTrip

CacheSpec == CacheInit /\ [][CacheNext]_vars

\* ------------------------------------------------- concurrent cache calls
\* Callers call the RoundTripper of cache.Middleware at the same time. The
\* loading cache runs at most one producer per key at a time: a Get for a key
\* whose producer is running waits for it.
NoReq == [method |-> "", url |-> ""]
NotReturned == [res |-> ErrOf("none"), up |-> NotInvoked]
ConcKey(c) ==
    extractCacheKey([method |-> creq[c].method, url |-> creq[c].url, body |-> NilBody,
                     header |-> NoHeader, order |-> <<>>]).key
ProducerRunning(key) == \E c \in Callers : cpc[c] = "inflight" /\ ConcKey(c) = key

\* cachedResp, e := m.Get(key, func() { resp, err = next.RoundTrip(req) ... }):
\* next is reached only when the loading cache runs this call's producer
MayInvokeAlways(c) == TRUE
MayInvoke(c) == ~ProducerRunning(ConcKey(c))

ConcInit ==
    /\ RetryUnused
    /\ GateUnused
    /\ KeyUnused
    /\ RequesterUnused
    /\ DelayUnused
    /\ decorator = "cache.Middleware"
    /\ Service = "storing"
    /\ allowedMethods = <<"GET">>
    /\ keyBody = FALSE
    /\ cacheStatuses = {}
    /\ runBody = NilBody
    /\ entries = {}
    /\ history = <<>>
    /\ cpc = [c \in Callers |-> "idle"]
    /\ creq = [c \in Callers |-> NoReq]
    /\ cgot = [c \in Callers |-> NotReturned]

\* RoundTrip(req) up to m.Get: the bypass test and the key
ConcCall(c, method, url) ==
    /\ cpc[c] = "idle"
    /\ creq' = [creq EXCEPT ![c] = [method |-> method, url |-> url]]
    /\ cpc' = [cpc EXCEPT ![c] = IF Bypass(method) THEN "direct" ELSE "get"]
    /\ UNCHANGED <<notCacheVars, decorator, Service, allowedMethods, keyBody,
                   cacheStatuses, runBody, entries, history, cgot>>

\* m.Get finds the key: the stored value is parsed and returned
ConcHit(c) ==
    /\ cpc[c] = "get"
    /\ Stored(ConcKey(c))
    /\ cgot' = [cgot EXCEPT ![c] = [res |-> ReadBack(ValueAt(ConcKey(c))), up |-> NotInvoked]]
    /\ cpc' = [cpc EXCEPT ![c] = "done"]
    /\ UNCHANGED <<notCacheVars, decorator, Service, allowedMethods, keyBody,
                   cacheStatuses, runBody, entries, history, creq>>

\* m.Get does not find the key and runs the producer, which calls next
ConcProduce(c) ==
    /\ cpc[c] = "get"
    /\ ~Stored(ConcKey(c))
    /\ MayInvoke(c)
    /\ cpc' = [cpc EXCEPT ![c] = "inflight"]
    /\ UNCHANGED <<notCacheVars, decorator, Service, allowedMethods, keyBody,
                   cacheStatuses, runBody, entries, history, creq, cgot>>

\* next.RoundTrip returns inside the producer: the producer's value is kept
\* by the loading cache and handed to the caller
ConcUpstream(c, up) ==
    /\ cpc[c] = "inflight"
    /\ cpc' = [cpc EXCEPT ![c] = "done"]
    /\ IF up.kind = "err"
       THEN /\ cgot' = [cgot EXCEPT ![c] = [res |-> CacheReadErr(ConcKey(c), c), up |-> up]]
            /\ UNCHANGED entries
       ELSE IF ~up.hasBody
       THEN /\ cgot' = [cgot EXCEPT ![c] = [res |-> ReadBack(NilValue), up |-> up]]
            /\ \/ entries' = entries \cup {[key |-> ConcKey(c), val |-> NilValue]}
               \/ UNCHANGED entries
       ELSE /\ cgot' = [cgot EXCEPT ![c] = [res |-> ReadBack(Dump(up.status, c)), up |-> up]]
            /\ entries' = entries \cup {[key |-> ConcKey(c), val |-> Dump(up.status, c)]}
    /\ UNCHANGED <<notCacheVars, decorator, Service, allowedMethods, keyBody,
                   cacheStatuses, runBody, history, creq>>

\* return next.RoundTrip(req) of a call that bypasses the cache
ConcDirect(c, up) ==
    /\ cpc[c] = "direct"
    /\ cpc' = [cpc EXCEPT ![c] = "done"]
    /\ cgot' = [cgot EXCEPT ![c] = [res |-> Passthrough(up, c), up |-> up]]
    /\ UNCHANGED <<notCacheVars, decorator, Service, allowedMethods, keyBody,
                   cacheStatuses, runBody, entries, history, creq>>

ConcNext ==
    \/ \E c \in Callers, method \in Methods, url \in URLs : ConcCall(c, method, url)
    \/ \E c \in Callers : ConcHit(c)
    \/ \E c \in Callers : ConcProduce(c)
    \/ \E c \in Callers, up \in UpOutcomes : ConcUpstream(c, up)
    \/ \E c \in Callers, up \in UpOutcomes : ConcDirect(c, up)

ConcSpec == ConcInit /\ [][ConcNext]_vars

\* ---------------------------------------------------- extractCacheKey alone
\* two requests are built header by header and their keys extracted, each
\* extraction iterating the header map in some order
HeaderNames == {"K2", "k2", "keyDbg"}
\* the value lists a header is given: one value, two values, and one value
\* that holds the two with "%%" in between
HeaderValues(name) ==
    IF name = "keyDbg"
    THEN {<<<<"val1">>, <<"val2">>>>, <<<<"val1", "%%", "val2">>>>}
    ELSE {<<<<"v22">>>>}
IncludeLists == {<<>>, <<"k2">>, <<"KEYDBG">>}
ExcludeLists == {<<>>, <<"K2">>}
NotExtracted == [done |-> FALSE, order |-> <<>>, key |-> NoKey, err |-> FALSE, read |-> FALSE]

KeyInit ==
    /\ RetryUnused
    /\ GateUnused
    /\ RequesterUnused
    /\ DelayUnused
    /\ decorator = "cache.Middleware"
    /\ Service = "nil"
    /\ allowedMethods = <<"GET">>
    /\ cacheStatuses = {}
    /\ runBody = NilBody
    /\ entries = {}
    /\ history = <<>>
    /\ cpc = <<>>
    /\ creq = <<>>
    /\ cgot = <<>>
    /\ keyBody \in BOOLEAN
    /\ keyHeaders \in BOOLEAN
    /\ hdrInclude \in (IF keyHeaders THEN IncludeLists ELSE {<<>>})
    /\ hdrExclude \in (IF keyHeaders THEN ExcludeLists ELSE {<<>>})
    /\ keyFunc \in KeyFuncs
    /\ \E b \in {NilBody, Bytes(1), FailingBody} :
          kreqs = <<[method |-> "GET", url |-> "/1", body |-> Bytes(1), header |-> NoHeader],
                    [method |-> "GET", url |-> "/1", body |-> b, header |-> NoHeader]>>
    /\ kkeys = <<NotExtracted, NotExtracted>>

\* req.Header[name] = vals
SetHeader(i, name, vals) ==
    /\ ~kkeys[i].done
    /\ name \notin DOMAIN kreqs[i].header
    /\ kreqs' = [kreqs EXCEPT ![i].header =
                    [k \in DOMAIN @ \cup {name} |-> IF k = name THEN vals ELSE @[k]]]
    /\ UNCHANGED <<notKeyVars, cacheVars, keyHeaders, hdrInclude, hdrExclude, keyFunc, kkeys>>

\* key, err := m.extractCacheKey(req)
ExtractKey(i, order) ==
    /\ ~kkeys[i].done
    /\ LET k == extractCacheKey([method |-> kreqs[i].method, url |-> kreqs[i].url,
                                  body |-> kreqs[i].body, header |-> kreqs[i].header,
                                  order |-> order])
       IN  kkeys' = [kkeys EXCEPT ![i] =
                        [done |-> TRUE, order |-> order, key |-> k.key, err |-> k.err,
                         read |-> k.read]]
    /\ UNCHANGED <<notKeyVars, cacheVars, keyHeaders, hdrInclude, hdrExclude, keyFunc, kreqs>>

KeyNext ==
    \/ \E i \in DOMAIN kreqs, name \in HeaderNames :
          \E vals \in HeaderValues(name) : SetHeader(i, name, vals)
    \/ \E i \in DOMAIN kreqs : \E order \in Orders(kreqs[i].header) : ExtractKey(i, order)

KeySpec == KeyInit /\ [][KeyNext]_vars

\* --------------------------------------------------------------- Requester
\* A middlewares slice is a backing array (0 for the nil slice), a length and
\* the array's length as capacity. Middlewares are numbered as they are made.
Reverse(q) == [i \in 1..Len(q) |-> q[Len(q) + 1 - i]]
Cap(sl) == IF sl.arr = 0 THEN 0 ELSE Len(arrays[sl.arr])
Elems(sl) == [i \in 1..sl.len |-> arrays[sl.arr][i]]
Chain(r) == Elems(requesters[r])
Fresh(n) == [i \in 1..n |-> made + i]
Padded(elems, cap) == [i \in 1..cap |-> IF i <= Len(elems) THEN elems[i] ELSE 0]

\* the room append leaves behind the elements when it allocates: none, or one
\* more slot (the growth the runtime picks is not fixed by the language)
Spares == {0, 1}

\* append(sl, elems...): the slice header it returns and the arrays after it.
\* With room in the backing array the elements are written in place, after
\* sl.len; otherwise a new array of at least the new length is allocated.
AppendHeader(sl, elems, spare) ==
    IF Len(elems) = 0 THEN sl
    ELSE IF sl.len + Len(elems) <= Cap(sl)
    THEN [sl EXCEPT !.len = sl.len + Len(elems)]
    ELSE [sl EXCEPT !.arr = Len(arrays) + 1, !.len = sl.len + Len(elems)]
AppendArrays(sl, elems, spare) ==
    IF Len(elems) = 0 THEN arrays
    ELSE IF sl.len + Len(elems) <= Cap(sl)
    THEN [arrays EXCEPT ![sl.arr] =
            [i \in DOMAIN @ |-> IF i > sl.len /\ i <= sl.len + Len(elems)
                                 THEN elems[i - sl.len] ELSE @[i]]]
    ELSE Append(arrays, Padded(Elems(sl) \o elems, sl.len + Len(elems) + spare))

\* the transport the chain is built on: r.client.Transport = http.DefaultTransport,
\* whatever transport the client was given to New with
BaseTransport(client) == "default"

\* for _, handler := range r.middlewares { Transport = handler(Transport) }:
\* the handler applied last is entered first
EntryOrderAsListed(chain) == chain
EntryOrder(chain) == Reverse(chain)

RequesterInit ==
    /\ RetryUnused
    /\ GateUnused
    /\ CacheUnused
    /\ KeyUnused
    /\ DelayUnused
    /\ arrays = <<>>
    /\ requesters = <<>>
    /\ given = <<>>
    /\ made = 0
    /\ lastDo = <<>>

\* New(client, middlewares...): the variadic slice is nil without arguments,
\* else a new array exactly as long as the arguments
New(client, n) ==
    /\ Len(requesters) < MaxRequesters
    /\ made + n <= MaxMiddlewares
    /\ requesters' = Append(requesters,
                            [arr |-> IF n = 0 THEN 0 ELSE Len(arrays) + 1, len |-> n,
                             client |-> client, parent |-> 0])
    /\ arrays' = IF n = 0 THEN arrays ELSE Append(arrays, Fresh(n))
    /\ given' = Append(given, Fresh(n))
    /\ made' = made + n
    /\ UNCHANGED <<notRqVars, lastDo>>

\* r.middlewares = append(r.middlewares, middlewares...)
Use(r, n, spare) ==
    /\ made + n <= MaxMiddlewares
    /\ requesters' = [requesters EXCEPT ![r] =
                         [@ EXCEPT !.arr = AppendHeader(requesters[r], Fresh(n), spare).arr,
                                   !.len = AppendHeader(requesters[r], Fresh(n), spare).len]]
    /\ arrays' = AppendArrays(requesters[r], Fresh(n), spare)
    /\ given' = [given EXCEPT ![r] = @ \o Fresh(n)]
    /\ made' = made + n
    /\ UNCHANGED <<notRqVars, lastDo>>

\* res := &Requester{client: r.client, middlewares: append(r.middlewares, middlewares...)}
\* (parent remembers the requester it was derived from)
WithNotInherited(r, n, spare) ==
    /\ Len(requesters) < MaxRequesters
    /\ made + n <= MaxMiddlewares
    /\ requesters' = Append(requesters,
                            [arr |-> IF n = 0 THEN 0 ELSE Len(arrays) + 1, len |-> n,
                             client |-> requesters[r].client, parent |-> r])
    /\ arrays' = IF n = 0 THEN arrays ELSE Append(arrays, Fresh(n))
    /\ given' = Append(given, given[r] \o Fresh(n))
    /\ made' = made + n
    /\ UNCHANGED <<notRqVars, lastDo>>
With(r, n, spare) ==
    /\ Len(requesters) < MaxRequesters
    /\ made + n <= MaxMiddlewares
    /\ requesters' = Append(requesters,
                            [requesters[r] EXCEPT
                                !.arr = AppendHeader(requesters[r], Fresh(n), spare).arr,
                                !.len = AppendHeader(requesters[r], Fresh(n), spare).len,
                                !.parent = r])
    /\ arrays' = AppendArrays(requesters[r], Fresh(n), spare)
    /\ given' = Append(given, given[r] \o Fresh(n))
    /\ made' = made + n
    /\ UNCHANGED <<notRqVars, lastDo>>

\* Do(req), and Client() followed by a request through the client returned:
\* the transport is set, wrapped by every handler, and the request goes in
Do(r, how) ==
    /\ lastDo' = <<[rq |-> r, client |-> requesters[r].client,
                    chain |-> Chain(r), attached |-> given[r],
                    order |-> EntryOrder(Chain(r)),
                    back |-> Reverse(EntryOrder(Chain(r))),
                    reached |-> BaseTransport(requesters[r].client),
                    calls |-> 1]>>
    /\ UNCHANGED <<notRqVars, arrays, requesters, given, made>>

RequesterNext ==
    \/ \E client \in {"nil", "custom"}, n \in 0..MaxArgs : New(client, n)
    \/ \E r \in DOMAIN requesters, n \in 0..MaxArgs, spare \in Spares : Use(r, n, spare)
    \/ \E r \in DOMAIN requesters, n \in 0..MaxArgs, spare \in Spares : With(r, n, spare)
    \/ \E r \in DOMAIN requesters, how \in {"Do", "Client"} : Do(r, how)

RequesterSpec == RequesterInit /\ [][RequesterNext]_vars

\* ------------------------------------------------------------------ backoff
\* time.Duration is a signed 64-bit count of nanoseconds. The model keeps the
\* arithmetic and scales the width: DurationBits bits, two's complement.
DurationBits == 8
MaxDuration == 2 ^ (DurationBits - 1) - 1
MinDuration == -(2 ^ (DurationBits - 1))
WrapDuration(x) == ((x + 2 ^ (DurationBits - 1)) % (2 ^ DurationBits)) - 2 ^ (DurationBits - 1)

\* jitterFactor is JitterDen-ths in jitterFactor, rand.Float64() is RandDen-ths
JitterDen == 2
RandDen == 4
JitterFactors == 0..JitterDen
Rands == 0..(RandDen - 1)
BackoffTypes == {"BackoffConstant", "BackoffLinear", "BackoffExponential"}
MaxDelays == {0, 2, 5, MaxDuration}

\* time.Duration(f) of the float num/den: the fraction is dropped toward zero;
\* a value outside the integer's range converts to a value the language
\* leaves to the implementation (the smallest integer, or the nearest end)
Trunc(num, den) == IF num >= 0 THEN num \div den ELSE -((-num) \div den)
FromFloat(num, den, sat) ==
    LET q == Trunc(num, den) IN
    IF q >= MinDuration /\ q <= MaxDuration THEN q
    ELSE IF sat /\ q > 0 THEN MaxDuration
    ELSE MinDuration

ShapeDelay(k, sat) ==
    CASE backoff = "BackoffConstant" -> initialDelay
      [] backoff = "BackoffLinear" -> WrapDuration(initialDelay * k)
      [] backoff = "BackoffExponential" ->
            WrapDuration(initialDelay * FromFloat(2 ^ (k - 1), 1, sat))
      [] OTHER -> 0

Clamp(d) == IF d > maxDelay THEN maxDelay ELSE d

\* delay + rand*jitter - jitter/2 with jitter = delay * jitterFactor
Jitter(d, rn, sat) ==
    IF jitterFactor > 0
    THEN FromFloat(d * (2 * JitterDen * RandDen + 2 * jitterFactor * rn - jitterFactor * RandDen),
                   2 * JitterDen * RandDen, sat)
    ELSE d

calcDelay(k, rn, sat) ==
    IF k = 0 THEN 0 ELSE Jitter(Clamp(ShapeDelay(k, sat)), rn, sat)

DelayInit ==
    /\ RetryUnused
    /\ GateUnused
    /\ CacheUnused
    /\ KeyUnused
    /\ RequesterUnused
    /\ initialDelay \in 0..MaxInitialDelay
    /\ maxDelay \in MaxDelays
    /\ backoff \in BackoffTypes
    /\ jitterFactor \in JitterFactors
    /\ computed = <<>>

\* RoundTrip: delay := r.calcDelay(attempt), for an attempt after the first
CalcDelay(k, rn, sat) ==
    /\ computed' = <<[attempt |-> k, rand |-> rn, delay |-> calcDelay(k, rn, sat)]>>
    /\ UNCHANGED <<notDelayVars, initialDelay, maxDelay, backoff, jitterFactor>>

DelayNext == \E k \in 1..MaxAttemptIndex, rn \in Rands, sat \in BOOLEAN : CalcDelay(k, rn, sat)

DelaySpec == DelayInit /\ [][DelayNext]_vars

\* ----------------------------------------------------------------- claims
Range(q) == {q[i] : i \in DOMAIN q}
Last == trace[Len(trace)]
AllErrors == \A i \in DOMAIN trace : trace[i].err
All503 == \A i \in DOMAIN trace : ~trace[i].err /\ trace[i].code = 503
DefaultPolicy == Len(retryCodes) = 0 /\ Len(excludeCodes) = 0
\* retryability as the policy is stated: allow-list, else deny-list, else >= 500
RetryableByPolicy(status) ==
    IF retryCodes # <<>> THEN status \in Range(retryCodes)
    ELSE IF excludeCodes # <<>> THEN status \notin Range(excludeCodes)
    ELSE status >= 500
\* the request can be replayed: no body, a GetBody of its own, or a buffered body
Replayable == ~(hasBody /\ reqGetBody = "nil")
\* the call went through its attempts and returned after the loop
RanToTheEnd == pc = "done" /\ ~cancelled /\ result.kind \in {"ok", "transport"}

\* C1: a request without body or with a GetBody of its own, never cancelled,
\* whose every invocation fails with a transport error: next.RoundTrip is
\* invoked exactly `attempts` times and RoundTrip returns the transport error
\* that states `attempts` and wraps the error of the last invocation.
C1_Case ==
    /\ RanToTheEnd
    /\ attempts >= 1
    /\ ~hasBody \/ reqGetBody = "user"
    /\ AllErrors
C1_AlwaysFailingExhausts ==
    C1_Case => /\ calls = attempts
               /\ result.kind = "transport"
               /\ result.n = attempts
               /\ result.wraps = calls
C1_Witness == C1_Case /\ attempts = 3 /\ hasBody

\* C2: when the attempts are used up (every invocation ended in a transport
\* error or a retryable status), RoundTrip returns an error iff the LAST
\* invocation ended in a transport error; a last retryable response is
\* returned with a nil error whatever happened before.
C2_Case ==
    /\ RanToTheEnd
    /\ calls >= 1
    /\ calls = effAttempts
    /\ \A i \in DOMAIN trace : trace[i].err \/ RetryableByPolicy(trace[i].code)
C2_ErrorIffLastFailed ==
    C2_Case => /\ (result.kind = "transport") <=> Last.err
               /\ ~Last.err => result = RetOK(Last.code)

\* C3: default policy, every invocation answers 503: next.RoundTrip is invoked
\* exactly `attempts` times and the last 503 response is returned, error nil
\* (for a replayable request that is never cancelled).
C3_Case ==
    /\ RanToTheEnd
    /\ attempts >= 1
    /\ DefaultPolicy
    /\ Replayable
    /\ All503
C4_NonRetryableEndsLoop ==
    (trace # <<>> /\ ~Last.err /\ ~RetryableByPolicy(Last.code))
        => /\ pc = "done"
           /\ result = RetOK(Last.code)
           /\ calls = attempt + 1
C4_Witness ==
    /\ attempts = 3
    /\ DefaultPolicy
    /\ Len(trace) = 3
    /\ trace[1].err /\ trace[2].err /\ trace[3].code = 200
    /\ pc = "done" /\ result = RetOK(200) /\ calls = 3

\* C5: a body without GetBody and buffering disabled: next.RoundTrip is never
\* invoked a second time, and a call that is not cancelled invokes it exactly
\* once, for every budget >= 1, whether the attempt fails or is retryable.
C5_Case == hasBody /\ reqGetBody = "nil" /\ ~bufferBodies /\ attempts >= 1
C5_UnreplayableBodyOnce ==
    C5_Case => calls <= 1 /\ (RanToTheEnd => calls = 1)
C5_Witness ==
    C5_Case /\ attempts = 3 /\ RanToTheEnd /\ calls = 1 /\ Last.code = 503

\* C6 as stated: buffering enabled, budget >= 1, a body longer than
\* maxBufferSize that came without a GetBody of the caller's: the body-too-large error and no invocation at all.
C6_Case(minAttempts) ==
    /\ bufferBodies
    /\ attempts >= minAttempts
    /\ hasBody
    /\ reqGetBody # "user"
    /\ bodyLen > maxBufferSize
C7_CancelDuringDelay ==
    cancelPc = "parked" => /\ pc \in {"parked", "done"}
                           /\ calls = callsAtCancel
                           /\ pc = "done" => result = RetCtxDelay
                                             /\ result.wraps = CtxErr
C7_Witness == cancelPc = "parked" /\ pc = "done" /\ calls = 2

\* C8 as stated: once the context has fired, no invocation of next.RoundTrip
\* starts, wherever in the loop the call stood.
C8_NoInvocationAfterCancel == cancelled => calls = callsAtCancel
\* C8 amended: once the context has fired, at most one more invocation starts
\* (one whose cancellation check had passed already), and none when the
\* context fired before the iteration's check or while parked in the select.
C8_AtMostOneAfterCancel ==
    cancelled => /\ calls <= callsAtCancel + 1
                 /\ cancelPc \in {"entry", "check", "parked"} => calls = callsAtCancel
C8_Witness ==
    /\ cancelPc = "invoke"
    /\ calls = callsAtCancel + 1
    /\ pc = "done"
    /\ result = RetCtx

\* C9: shouldRetry agrees with the stated policy on every status code, and the
\* loop acts on it: after a successful invocation the loop went on iff the
\* status is retryable by the policy.
C9_ShouldRetryPolicy ==
    /\ pc = "new" => \A s \in AllCodes : shouldRetry(s) = RetryableByPolicy(s)
    /\ (trace # <<>> /\ ~Last.err)
          => ((attempt = Len(trace)) <=> RetryableByPolicy(Last.code))
C9_Witness ==
    /\ retryCodes = <<503, 404>>
    /\ trace # <<>> /\ ~Last.err /\ Last.code = 404
    /\ attempt = Len(trace)

\* C10: with both RetryOnCodes and RetryExcludeCodes the construction panics:
\* no RoundTrip ever starts on such a middleware.
C10_BothListsPanic ==
    (Len(retryCodes) > 0 /\ Len(excludeCodes) > 0)
        => pc \in {"new", "panicked"} /\ calls = 0 /\ result = Pending
C10_Witness == pc = "panicked" /\ retryCodes = <<503>> /\ excludeCodes = <<404>>

\* ------------------------------------------------- claims: MaxConcurrent
Inside == {c \in Callers : gpc[c] = "inside"}
InsideVia(t) == {c \in Inside : via[c] = t}
AllReturned == \A c \in Callers : gpc[c] = "done"
Contending(c) == gpc[c] = "waiting" /\ ~gctx[c]

\* C11: whatever the number of concurrent calls, at most N of them are inside
\* the wrapped invoker at any moment.
C11_AtMostNInside ==
    \A t \in Transports : Cardinality(InsideVia(t)) <= gateCap
C11_Witness ==
    \E t \in Transports :
        /\ Cardinality(InsideVia(t)) = gateCap
        /\ \E c \in Callers : Contending(c) /\ via[c] = t

\* C12: a call whose context fires while it waits for a slot never invokes the
\* wrapped invoker and returns the context's error.
C12_CancelledWaitNeverInvokes ==
    \A c \in Callers :
        gcancelPc[c] = "waiting" =>
            /\ invoked[c] = 0
            /\ gpc[c] \in {"waiting", "done"}
            /\ gpc[c] = "done" => gresult[c] = "ctx"
C12_Witness ==
    \E c \in Callers :
        /\ gcancelPc[c] = "waiting"
        /\ gpc[c] = "done"
        /\ gresult[c] = "ctx"
        /\ HasRoom(SemaOf(c))

\* C13: an admitted call gives its slot back exactly once when it completes
\* (response, error, or cancelled while inside), a call that gave up waiting
\* gives back nothing, and once every call has returned no slot is held.
C13_ReleaseExactlyOnce ==
    /\ \A c \in Callers :
          /\ invoked[c] <= 1
          /\ released[c] = (IF gpc[c] = "done" THEN invoked[c] ELSE 0)
          /\ gresult[c] = "ctx" => released[c] = 0
    /\ AllReturned => \A s \in Semaphores : admitted[s] = 0
C13_Witness ==
    /\ AllReturned
    /\ \E c \in Callers : gresult[c] = "err" /\ released[c] = 1
    /\ \E c \in Callers : gcancelPc[c] = "inside" /\ released[c] = 1
    /\ \E c \in Callers : gresult[c] = "ctx"

\* C14: with every invocation returning and fair scheduling, each of the M > N
\* launched calls completes, and when no context fired the wrapped invoker
\* has then been invoked once per call, M times in all.
C14_EveryCallCompletes ==
    <>(/\ AllReturned
       /\ (\A c \in Callers : ~gctx[c]) => (\A c \in Callers : invoked[c] = 1))
C14_Witness ==
    /\ MaxCallers > gateCap
    /\ AllReturned
    /\ \A c \in Callers : ~gctx[c] /\ invoked[c] = 1

\* C15: one handler applied to several transports enforces one limit: the
\* calls in flight across all the transports it wrapped never exceed N.
C15_SharedLimit == Cardinality(Inside) <= gateCap
C15_Witness ==
    /\ Cardinality(Inside) = gateCap
    /\ \E c \in Inside : \E d \in Callers : Contending(d) /\ via[d] # via[c]

\* ------------------------------------------------ claims: cache decorator
Calls == DOMAIN history
SameRequest(i, j) ==
    /\ history[i].method = history[j].method
    /\ history[i].url = history[j].url
    /\ history[i].body = history[j].body
IsMiddleware == decorator = "cache.Middleware"
IsBuiltin == decorator = "middleware.Cache"
DefaultGetOnly == allowedMethods = <<"GET">>
\* the method is in the allowed list when letter case is ignored
Allowed(method) == ToUpper(method) \in {ToUpper(m) : m \in Range(allowedMethods)}

\* C16: with a storing loading cache and the default GET-only configuration a
\* GET call invokes the wrapped invoker exactly when no earlier identical call
\* was answered: the second of two identical calls does not invoke it, a call
\* that differs in its URL path does.
C16_Case == IsMiddleware /\ Service = "storing" /\ DefaultGetOnly /\ runBody # FailingBody
C16_IdenticalOnceOtherPathAgain ==
    C16_Case =>
        \A j \in Calls :
            history[j].method = "GET" =>
                (history[j].invoked <=>
                    ~\E i \in 1..(j - 1) :
                        SameRequest(i, j) /\ history[i].result.kind = "resp")
C16_Witness ==
    /\ C16_Case
    /\ Len(history) = 3
    /\ SameRequest(1, 2)
    /\ history[1].method = "GET"
    /\ history[3].method = "GET"
    /\ history[3].url # history[1].url
    /\ history[1].invoked /\ ~history[2].invoked /\ history[3].invoked
    /\ history[2].result = history[1].result

\* C17: the built-in cache never stores a response whose status is outside
\* the cacheable set (default 200), so a request whose earlier identical
\* calls were all answered with such statuses invokes the wrapped invoker again.
Uncacheable(i) == history[i].up.kind = "resp" /\ history[i].up.status \notin cacheStatuses
C18_BodyRestored ==
    (IsMiddleware /\ keyBody) =>
        \A i \in Calls :
            (history[i].keyed /\ history[i].invoked) => history[i].seen = history[i].body

\* C19: a cacheable request answered with a response that has no body gets
\* that response back with a nil error, and nothing is stored for it.
C19_NoBodyIsNoOp ==
    IsMiddleware =>
        \A i \in Calls :
            (~history[i].bypass /\ history[i].up.kind = "resp" /\ ~history[i].up.hasBody) =>
                /\ history[i].result = RespOf(history[i].up.status, FALSE, i)
                /\ ~Stored(history[i].key)

\* C20: without a cache collaborator, or with a method outside the allowed
\* list (letter case ignored), the call goes straight to the wrapped invoker
\* once, with the request untouched: no key is computed and the loading
\* cache is not consulted, and the invoker's answer is returned as it is.
C20_BypassDelegates ==
    IsMiddleware =>
        /\ \A i \in Calls :
              (Service = "nil" \/ ~Allowed(history[i].method)) =>
                  /\ history[i].invoked
                  /\ ~history[i].keyed
                  /\ ~history[i].consulted
                  /\ history[i].seen = history[i].body
                  /\ history[i].result = Passthrough(history[i].up, i)
        /\ Service = "nil" => entries = {}
C20_Witness ==
    /\ IsMiddleware
    /\ Service = "storing"
    /\ allowedMethods = <<"get">>
    /\ Len(history) = 2
    /\ history[1].method = "GET" /\ history[1].consulted
    /\ history[2].method = "POST" /\ history[2].bypass /\ history[2].invoked
    /\ ~history[2].keyed /\ ~history[2].consulted

\* C21: a transport error on a cacheable request comes back as no response and
\* an error that names the cache key and wraps the transport error; nothing
\* is stored for it, so the next identical request invokes the wrapped
\* invoker again.
FailedLoad(i) == ~history[i].bypass /\ history[i].up.kind = "err"
NextIdentical(i, j) ==
    /\ i < j
    /\ SameRequest(i, j)
    /\ \A k \in (i + 1)..(j - 1) : ~SameRequest(i, k)
C21_TransportErrorNotStored ==
    IsMiddleware =>
        \A i \in Calls :
            FailedLoad(i) =>
                /\ history[i].result.kind = "err"
                /\ history[i].result.status = 0
                /\ history[i].result.wraps = "transport"
                /\ history[i].result.from = i
                /\ history[i].key # NoKey
                /\ history[i].result.key = history[i].key
                /\ \A j \in Calls : NextIdentical(i, j) => history[j].invoked
C21_Witness ==
    /\ IsMiddleware
    /\ Len(history) = 2
    /\ FailedLoad(1)
    /\ NextIdentical(1, 2)
    /\ history[2].invoked
    /\ history[2].result.kind = "resp"
    /\ entries # {}

\* C22: under one configuration, requests with the same method, URL, header
\* map and body get the same key, whatever order the headers were set in and
\* whatever order the header map is iterated in.
C22_SameRequestSameKey ==
    \A a, b \in DOMAIN kkeys :
        (kkeys[a].done /\ kkeys[b].done /\ kreqs[a] = kreqs[b]) =>
            kkeys[a].key = kkeys[b].key /\ kkeys[a].err = kkeys[b].err
C22_Witness ==
    /\ keyHeaders
    /\ kkeys[1].done /\ kkeys[2].done
    /\ kreqs[1] = kreqs[2]
    /\ Len(kkeys[1].order) = 3
    /\ kkeys[1].order # kkeys[2].order
    /\ \E n, m \in HeaderNames : n # m /\ headerAllowed(n) /\ headerAllowed(m)
    /\ kkeys[1].key = kkeys[2].key

\* ---- Requester
\* the transport a client sends through when nothing replaces it
TransportOfClient(client) == IF client = "nil" THEN "default" ELSE client

\* C23: a requester built from a client with a custom transport keeps it: every
\* Do and every request through Client() reaches the custom transport exactly
\* once, and the default transport is reached only when the client had none.
C23_CustomTransportKept ==
    \A i \in DOMAIN lastDo :
        /\ lastDo[i].reached = TransportOfClient(lastDo[i].client)
        /\ lastDo[i].calls = 1

\* C24 as stated: the first-attached middleware is outermost, entered first on
\* the way in and left last on the way out.
C24_FirstAttachedOutermost ==
    \A i \in DOMAIN lastDo :
        /\ lastDo[i].order = lastDo[i].chain
        /\ lastDo[i].back = Reverse(lastDo[i].chain)

\* C24 as the code has it: the middlewares are entered in the reverse of the
\* order of the requester's list (the last attached is outermost: it sees the
\* request first) and left in the order of the list (the last attached sees
\* the response last).
C24_LastAttachedOutermost ==
    \A i \in DOMAIN lastDo :
        /\ lastDo[i].order = Reverse(lastDo[i].chain)
        /\ lastDo[i].back = lastDo[i].chain

C24_Witness ==
    \E i \in DOMAIN lastDo :
        /\ Len(lastDo[i].chain) >= 2
        /\ lastDo[i].chain[1] # lastDo[i].chain[2]
        /\ lastDo[i].order[1] = lastDo[i].chain[Len(lastDo[i].chain)]
        /\ lastDo[i].back[Len(lastDo[i].back)] = lastDo[i].chain[Len(lastDo[i].chain)]

\* C25: after any sequence of New, Use and With every requester's chain is the
\* one its own calls gave it: With and Use on one requester leave the chains
\* of the parent and of the siblings as they were.
C25_ChainsKeptSeparate ==
    \A r \in DOMAIN requesters : Chain(r) = given[r]

\* ---- backoff
\* the shape value of attempt k as a number, and clamped to the maximum delay
ShapeValue(k) ==
    CASE backoff = "BackoffConstant" -> initialDelay
      [] backoff = "BackoffLinear" -> initialDelay * k
      [] backoff = "BackoffExponential" -> initialDelay * 2 ^ (k - 1)
ClampedValue(k) == Min(ShapeValue(k), maxDelay)

\* C26: with jitter 0 the delay of attempt k >= 1 is the shape value (d, d*k,
\* d*2^(k-1)) clamped to the maximum delay.
C26_ShapeClamped ==
    \A i \in DOMAIN computed :
        jitterFactor = 0 => computed[i].delay = ClampedValue(computed[i].attempt)

\* C27: the delay before retry k is at most the configured maximum delay, for
\* every shape and every jitter factor in [0,1].
C27_AtMostMaxDelay ==
    \A i \in DOMAIN computed : computed[i].delay <= maxDelay

\* C30: the delay is never negative and lies within [c*(1-f/2), c*(1+f/2)], c
\* the shape value clamped to the maximum delay (the fraction of a nanosecond
\* dropped by the conversion aside), for every k, large k included.
C30_WithinJitterBand ==
    \A i \in DOMAIN computed :
        LET c == ClampedValue(computed[i].attempt)
            dl == computed[i].delay
        IN /\ dl >= 0
           /\ dl * 2 * JitterDen > c * (2 * JitterDen - jitterFactor) - 2 * JitterDen
           /\ dl * 2 * JitterDen <= c * (2 * JitterDen + jitterFactor)

\* ---- Retry Engine: request bodies
\* C28: the body-too-large error reports the length of the body and the
\* configured limit, for every body longer than the limit.
C28_ReportsActualSize ==
    (result.kind = "tooLarge" /\ ~bodyReadErr)
        => (result.n = bodyLen /\ result.limit = maxBufferSize)

\* C29: buffering enabled, no GetBody of the caller's, body no longer than the
\* limit: the attempt budget is the configured one and every invocation of
\* next finds the whole body to read, whatever earlier invocations read.
Buffered == pc \notin {"new", "ready", "entry"} /\ reqGetBody = "buffered"
C29_FreshBodyEveryAttempt ==
    Buffered =>
        /\ bufferBodies /\ hasBody /\ attempts > 1
        /\ bodyLen <= maxBufferSize
        /\ effAttempts = attempts
        /\ \A i \in DOMAIN trace : trace[i].body = bodyLen

C29_Witness ==
    /\ Buffered
    /\ bodyLen = maxBufferSize
    /\ bodyLen >= 1
    /\ attempts >= 2
    /\ Len(trace) = attempts
    /\ \A i \in DOMAIN trace : trace[i].body = bodyLen
    /\ unread = 0

\* C31: when GetBody fails before a retry the call ends with that error: next
\* is not invoked for that attempt (the invocations are those of the attempts
\* before it) nor later, and the error is not the retry-exhausted one.
C31_GetBodyFailureAborts ==
    result.kind = "getBody" =>
        /\ pc = "done"
        /\ attempt >= 1
        /\ calls = attempt
        /\ Len(trace) = attempt
        /\ result # ExhaustedResult

C31_Witness ==
    /\ result.kind = "getBody"
    /\ pc = "done"
    /\ calls = 1
    /\ effAttempts >= 3

\* C39: next is invoked at most the configured number of attempts, every
\* invocation after the first comes after one backoff wait of its own, and
\* with a budget of at least one a call that has returned did not return a
\* nil response together with a nil error.
C39_InvocationBound ==
    /\ calls <= attempts
    /\ Len(trace) = calls
    /\ calls = 0 => waits = 0
    /\ calls >= 1 => (waits = calls - 1 \/ waits = calls)
    /\ pc = "invoke" => waits = calls
    /\ (pc = "done" /\ attempts >= 1 /\ result.kind = "ok") => result.resp # NoResp

C39_Witness ==
    /\ pc = "done"
    /\ attempts >= 3
    /\ calls = attempts
    /\ waits = attempts - 1
    /\ cancelled
    /\ result.kind = "ok"

\* C32: a requester derived by base.With(mw2) from a base made by New with mw1
\* runs mw2 before mw1 on one Do and reaches the transport once; in general a
\* middleware later in the requester's list sees the request before every
\* earlier one.
Pos(q, x) == CHOOSE k \in DOMAIN q : q[k] = x
DerivedFromNew(l) ==
    /\ requesters[l.rq].parent # 0
    /\ requesters[requesters[l.rq].parent].parent = 0
    /\ Cap(requesters[requesters[l.rq].parent]) = 1
    /\ Len(l.attached) = 2
    /\ given[requesters[l.rq].parent] = <<l.attached[1]>>
C32_WithRunsAddedFirst ==
    \A i \in DOMAIN lastDo :
        /\ lastDo[i].calls = 1
        /\ Len(lastDo[i].order) = Len(lastDo[i].chain)
        /\ \A a, b \in DOMAIN lastDo[i].chain :
              a < b => Pos(lastDo[i].order, lastDo[i].chain[b])
                          < Pos(lastDo[i].order, lastDo[i].chain[a])
        /\ DerivedFromNew(lastDo[i]) =>
              lastDo[i].order = <<lastDo[i].attached[2], lastDo[i].attached[1]>>

C32_Witness ==
    \E i \in DOMAIN lastDo :
        /\ DerivedFromNew(lastDo[i])
        /\ lastDo[i].order = <<2, 1>>
        /\ lastDo[i].calls = 1

\* C35: when reading the request body for the key fails, the call returns
\* that error and neither the loading cache nor next is invoked.
C35_KeyErrorAborts ==
    IsMiddleware =>
        \A i \in Calls :
            (~history[i].bypass /\ keyBody /\ history[i].body = FailingBody) =>
                /\ history[i].result = ErrOf("cache key")
                /\ ~history[i].consulted
                /\ ~history[i].invoked
                /\ history[i].key = NoKey

C35_Witness ==
    /\ IsMiddleware
    /\ keyBody
    /\ runBody = FailingBody
    /\ Len(history) >= 2
    /\ \A i \in Calls : ~history[i].bypass /\ history[i].result = ErrOf("cache key")
    /\ entries = {}

\* C36: a hit delivers the status and the body of the miss that stored the
\* entry, and every caller's response has a reader of its own over a whole body.
StoredBy(i, j) ==
    /\ i < j
    /\ ~history[i].bypass /\ ~history[j].bypass
    /\ history[i].key = history[j].key
    /\ history[i].invoked /\ history[i].result.kind = "resp"
    /\ ~history[j].invoked /\ history[j].consulted
C36_HitEqualsMiss ==
    IsMiddleware =>
        \A i, j \in Calls :
            StoredBy(i, j) =>
                /\ history[j].result.kind = "resp"
                /\ history[j].result.status = history[i].result.status
                /\ history[j].result.status = history[i].up.status
                /\ history[j].result.from = i
                /\ history[j].result.hasBody
                /\ \A k \in Calls \ {j} : history[k].reader # history[j].reader

C36_Witness ==
    /\ IsMiddleware
    /\ Len(history) = 3
    /\ StoredBy(1, 2)
    /\ StoredBy(1, 3)
    /\ history[1].up.status = 404
    /\ history[3].result.status = 404
    /\ history[2].reader # history[3].reader

\* ---- cache key
Extracted(i) == kkeys[i].done /\ ~kkeys[i].err
FoldedIn(name, list) == \E i \in DOMAIN list : ToUpper(list[i]) = ToUpper(name)
\* the header contributes to the key, as the claim has it
Contributes(name) ==
    /\ keyHeaders
    /\ \/ hdrInclude # <<>> /\ FoldedIn(name, hdrInclude)
       \/ hdrInclude = <<>> /\ hdrExclude # <<>> /\ ~FoldedIn(name, hdrExclude)
       \/ hdrInclude = <<>> /\ hdrExclude = <<>>
Projection(header) == [k \in {n \in DOMAIN header : Contributes(n)} |-> header[k]]
RenderAll(header) ==
    LET o == CHOOSE o \in Orders(header) : TRUE
    IN  [i \in DOMAIN o |-> Render(o[i], header[o[i]])]
BodyPart(body) == IF keyBody THEN bodyKey(body).bkey ELSE 0

\* C33: without a key function the key is the composite of URL, method, the
\* contributing headers (sorted) and the body part: a header is in it iff
\* projection is on and the include list (when there is one) has its name,
\* or else the exclude list has not; letter case of names is ignored.
C33_HeaderProjection ==
    keyFunc = "nil" =>
        \A i \in DOMAIN kkeys :
            Extracted(i) =>
                kkeys[i].key =
                    Digest(CompositeKey(kreqs[i].url, kreqs[i].method,
                                        Join(SortStrings(RenderAll(Projection(kreqs[i].header))), "$$"),
                                        BodyPart(kreqs[i].body)))

C33_Witness ==
    /\ keyFunc = "nil"
    /\ keyHeaders
    /\ hdrInclude = <<"k2">>
    /\ hdrExclude = <<"K2">>
    /\ Extracted(1)
    /\ DOMAIN kreqs[1].header = {"K2", "keyDbg"}
    /\ DOMAIN Projection(kreqs[1].header) = {"K2"}

\* C34: with a key function the key is the digest of what the function
\* returns: header and body options change nothing and the body is not read.
C34_KeyFuncAlone ==
    keyFunc # "nil" =>
        /\ \A i \in DOMAIN kkeys :
              kkeys[i].done =>
                  /\ kkeys[i].key = Digest(KeyFuncValue(kreqs[i]))
                  /\ ~kkeys[i].read
                  /\ ~kkeys[i].err
        /\ \A a, b \in DOMAIN kkeys :
              (kkeys[a].done /\ kkeys[b].done /\ KeyFuncValue(kreqs[a]) = KeyFuncValue(kreqs[b]))
                  => kkeys[a].key = kkeys[b].key

C34_Witness ==
    /\ keyFunc = "Path"
    /\ keyBody
    /\ keyHeaders
    /\ kkeys[1].done /\ kkeys[2].done
    /\ kreqs[2].body = FailingBody
    /\ DOMAIN kreqs[1].header = {"keyDbg"}
    /\ DOMAIN kreqs[2].header = {"k2"}
    /\ kkeys[1].key = kkeys[2].key

\* C38: on the composite path two requests that differ in URL, in method, in
\* a contributing header (name or value list) or in the body part that is
\* projected get different keys.
Differ(a, b) ==
    \/ kreqs[a].url # kreqs[b].url
    \/ kreqs[a].method # kreqs[b].method
    \/ Projection(kreqs[a].header) # Projection(kreqs[b].header)
    \/ BodyPart(kreqs[a].body) # BodyPart(kreqs[b].body)
C38_DifferentRequestsDifferentKeys ==
    keyFunc = "nil" =>
        \A a, b \in DOMAIN kkeys :
            (Extracted(a) /\ Extracted(b) /\ Differ(a, b)) => kkeys[a].key # kkeys[b].key

\* ---- concurrent cache calls
\* C37: calls of a cacheable method with the same key never have more than one
\* invocation of next in flight, and a caller that has returned got a
\* response unless the producer it ran or waited for gave none (an error of
\* next, or a response without a body).
Cached(c) == ~Bypass(creq[c].method)
C37_OneInFlightPerKey ==
    /\ \A a, b \in Callers :
          (cpc[a] = "inflight" /\ cpc[b] = "inflight" /\ ConcKey(a) = ConcKey(b)) => a = b
    /\ \A c \in Callers :
          (cpc[c] = "done" /\ Cached(c)) =>
              \/ cgot[c].res.kind = "resp" /\ cgot[c].res.hasBody
              \/ cgot[c].up.kind = "err" /\ cgot[c].res = CacheReadErr(ConcKey(c), c)
              \/ /\ cgot[c].res.kind = "panic"
                 /\ \/ cgot[c].up.kind = "resp" /\ ~cgot[c].up.hasBody
                    \/ cgot[c].up = NotInvoked /\ [key |-> ConcKey(c), val |-> NilValue] \in entries

C37_Witness ==
    /\ cpc[1] = "inflight"
    /\ cpc[2] = "get"
    /\ cpc[3] = "get"
    /\ ConcKey(1) = ConcKey(2)
    /\ ConcKey(1) = ConcKey(3)
    /\ ~Stored(ConcKey(1))

====
